---- MODULE Spec2Model ----
(***************************************************************************)
(* Model of the CV extractor: the span ordering of OCR_text_from_pdf, the  *)
(* markdown rendering of tables, the page-window loop of analyze_document, *)
(* the fence stripping of parse_into_json, the digital/OCR routing of      *)
(* PDF_Reader and the client singletons of the two client factories.       *)
(*                                                                         *)
(* Python strings are sequences of one-character strings, so that split,   *)
(* join, comparison and formatting are computed and not assumed.           *)
(***************************************************************************)
EXTENDS Integers, Sequences, FiniteSets, TLC

VARIABLES
    MIN_WORD_THRESHOLD, \* module global of document_intelligence_client.py
    result,             \* OCR_text_from_pdf: the AnalyzeResult of the service
    pc,                 \* OCR_text_from_pdf: position in the function
    idx,                \* OCR_text_from_pdf: index of the current for loop
    pq,                 \* OCR_text_from_pdf: PriorityQueue._queue
    result_string,      \* OCR_text_from_pdf: the text built so far
    pushed,             \* history: indices of the paragraphs pushed at line 81
    emitted,            \* history: the (priority, item) tuples popped so far
    table,              \* table_to_markdown: the argument
    markdown,           \* table_to_markdown: the returned string
    tpc,                \* table_to_markdown: position
    file_type,          \* analyze_document: the argument
    num_pages,          \* analyze_document: document.page_count
    page,               \* analyze_document: the loop variable
    windows,            \* history: the pages arguments passed to OCR_text_from_pdf
    window_texts,       \* history: the strings OCR_text_from_pdf returned
    attempts,           \* history: number of analysis calls made
    doc_string,         \* analyze_document: result_string
    dpc,                \* analyze_document: position
    returned,           \* analyze_document: the value handed to the caller
    llm_response,       \* parse_into_json: the argument
    json_out,           \* parse_into_json: the outcome
    jpc,                \* parse_into_json: position
    page_texts,         \* PDF_Reader: what extract_text gives for each page
    open_fails,         \* PDF_Reader: whether opening or parsing the file raises
    pidx,               \* is_digital_pdf: index of the page loop
    digital,            \* is_digital_pdf: the returned value
    route,              \* extract_text_from_pdf: the reader that was used
    ppc,                \* PDF_Reader: position
    threads,            \* client factories: the threads of the process
    client,             \* client factories: the class attribute of each factory
    constructed,        \* history: number of clients built by each factory
    handed,             \* history: the clients each factory has returned
    tstep,              \* client factories: position of each thread
    tfac,               \* client factories: the factory a thread is calling
    targs,              \* client factories: the arguments of a thread's call
    tnew,               \* client factories: the client a thread has just built
    got,                \* client factories: what a thread's last call returned
    calls               \* history: number of calls each thread has made

cfgVars  == <<MIN_WORD_THRESHOLD>>
ocrVars  == <<result, pc, idx, pq, result_string, pushed, emitted>>
tblVars  == <<table, markdown, tpc>>
drvVars  == <<file_type, num_pages, page, windows, window_texts, attempts,
              doc_string, dpc, returned>>
jsonVars == <<llm_response, json_out, jpc>>
pdfVars  == <<page_texts, open_fails, pidx, digital, route, ppc>>
sglVars  == <<threads, client, constructed, handed, tstep, tfac, targs, tnew, got,
              calls>>
vars     == <<cfgVars, ocrVars, tblVars, drvVars, jsonVars, pdfVars, sglVars>>

----------------------------------------------------------------------------
(* Bounds of the explored inputs.                                          *)

MaxFragments == 3
MaxCells == 4
MaxNumPages == 4002
MaxResponseLen == 5
MaxPdfPages == 3
MaxRowCount == 2
MaxCalls == 2

----------------------------------------------------------------------------
(* Strings.                                                                *)

\* The characters used, in code point order.
Alphabet ==
    << "\n", " ", "-", "0", "1", "2", "3", "4", "5", "6", "7", "8", "9",
       "A", "N", "a", "b", "c", "d", "e", "g", "i", "l", "m", "|" >>

Ord(c) == CHOOSE k \in 1..Len(Alphabet) : Alphabet[k] = c

\* s < t for Python str: the first differing character decides, a proper
\* prefix is smaller.
RECURSIVE StrLess(_, _)
StrLess(s, t) ==
    IF t = <<>> THEN FALSE
    ELSE IF s = <<>> THEN TRUE
    ELSE IF Head(s) = Head(t) THEN StrLess(Tail(s), Tail(t))
    ELSE Ord(Head(s)) < Ord(Head(t))

\* s.find(sep) + 1: the first position where sep occurs in s, 0 when none.
Find(s, sep) ==
    LET hits == { k \in 1..(Len(s) - Len(sep) + 1) :
                      SubSeq(s, k, k + Len(sep) - 1) = sep }
    IN  IF hits = {} THEN 0 ELSE CHOOSE k \in hits : \A h \in hits : k <= h

\* s.split(sep) for a non-empty sep.
RECURSIVE Split(_, _)
Split(s, sep) ==
    LET k == Find(s, sep)
    IN  IF k = 0 THEN <<s>>
        ELSE <<SubSeq(s, 1, k - 1)>> \o Split(SubSeq(s, k + Len(sep), Len(s)), sep)

\* sep.join(parts)
RECURSIVE Join(_, _)
Join(parts, sep) ==
    IF parts = <<>> THEN <<>>
    ELSE IF Len(parts) = 1 THEN parts[1]
    ELSE parts[1] \o sep \o Join(Tail(parts), sep)

Digit(d) == Alphabet[Ord("0") + d]

\* str(n) for n >= 0, as the f-string formats an int.
RECURSIVE ToDecimal(_)
ToDecimal(n) ==
    IF n < 10 THEN <<Digit(n)>> ELSE ToDecimal(n \div 10) \o <<Digit(n % 10)>>

\* The elements of a sequence that satisfy a test, in order.
RECURSIVE SelectCells(_, _)
SelectCells(cells, r) ==
    IF cells = <<>> THEN <<>>
    ELSE IF Head(cells).row_index = r
         THEN <<Head(cells).content>> \o SelectCells(Tail(cells), r)
         ELSE SelectCells(Tail(cells), r)

RECURSIVE Repeat(_, _)
Repeat(x, n) == IF n = 0 THEN <<>> ELSE <<x>> \o Repeat(x, n - 1)

----------------------------------------------------------------------------
(* table_to_markdown                                                       *)

Bar == <<"|", " ">>
Mid == <<" ", "|", " ">>
End == <<" ", "|", "\n">>
Dashes == <<"-", "-", "-">>

MarkdownLine(cellTexts) == Bar \o Join(cellTexts, Mid) \o End

RECURSIVE MarkdownRows(_, _)
MarkdownRows(t, row_index) ==
    IF row_index >= t.row_count THEN <<>>
    ELSE MarkdownLine(SelectCells(t.cells, row_index)) \o MarkdownRows(t, row_index + 1)

\* Variant of the row loop that starts at row 0: range(0, row_count).
table_to_markdown_from_row_0(t) ==
    LET headers == SelectCells(t.cells, 0)
    IN  MarkdownLine(headers)
        \o MarkdownLine(Repeat(Dashes, Len(headers)))
        \o MarkdownRows(t, 0)

table_to_markdown(t) ==
    LET headers == SelectCells(t.cells, 0)
    IN  MarkdownLine(headers)
        \o MarkdownLine(Repeat(Dashes, Len(headers)))
        \o MarkdownRows(t, 1)

----------------------------------------------------------------------------
(* PriorityQueue: heapq over (priority, item) tuples.                      *)

\* (p1, s1) < (p2, s2) for Python tuples of an int and a str.
TupleLess(x, y) ==
    \/ x.priority < y.priority
    \/ x.priority = y.priority /\ StrLess(x.item, y.item)

\* heapq._siftdown, positions counted from 1.
RECURSIVE SiftDown(_, _, _, _)
SiftDown(heap, startpos, pos, newitem) ==
    IF pos > startpos /\ TupleLess(newitem, heap[pos \div 2])
    THEN SiftDown([heap EXCEPT ![pos] = heap[pos \div 2]], startpos, pos \div 2, newitem)
    ELSE [heap EXCEPT ![pos] = newitem]

\* heapq._siftup: the smaller child moves up until a leaf is reached, then
\* the item is sifted down from there.
RECURSIVE SiftUp(_, _, _, _)
SiftUp(heap, startpos, pos, newitem) ==
    LET childpos == 2 * pos
        rightpos == childpos + 1
        c == IF rightpos <= Len(heap) /\ ~TupleLess(heap[childpos], heap[rightpos])
             THEN rightpos ELSE childpos
    IN  IF childpos <= Len(heap)
        THEN SiftUp([heap EXCEPT ![pos] = heap[c]], startpos, c, newitem)
        ELSE SiftDown([heap EXCEPT ![pos] = newitem], startpos, pos, newitem)

\* Variant of push with the sift left out: the queue is a plain list.
PushAppend(queue, priority, item) ==
    Append(queue, [priority |-> priority, item |-> item])

\* PriorityQueue.push
Push(queue, priority, item) ==
    LET entry == [priority |-> priority, item |-> item]
        heap  == Append(queue, entry)
    IN  SiftDown(heap, 1, Len(heap), entry)

\* PriorityQueue.pop: the queue after heapq.heappop, and the popped tuple.
PopRest(queue) ==
    LET lastelt == queue[Len(queue)]
        heap    == SubSeq(queue, 1, Len(queue) - 1)
    IN  IF heap = <<>> THEN heap ELSE SiftUp(heap, 1, 1, lastelt)

PopTop(queue) == queue[1]

----------------------------------------------------------------------------
(* OCR_text_from_pdf                                                       *)

SeqUpTo(S, n) == UNION { [1..k -> S] : k \in 0..n }

\* Paragraph contents of one and of two words.
ParagraphContents == { <<"a">>, <<"a", " ", "b">> }

\* The offsets of the first spans.
Offsets == {0, 1, 2}

Roles == { "none", "pageNumber" }

Paragraphs ==
    [ content : ParagraphContents, role : Roles, offset : Offsets ]

Cell(r, c) == [row_index |-> r, content |-> c]

\* The cell layouts of the tables of an analysis result: a header over one
\* data row, and a header row of two cells.
OcrCellLayouts ==
    { << Cell(0, <<"a", " ", "b">>), Cell(1, <<"c">>) >>,
      << Cell(0, <<"c">>), Cell(0, <<"d">>) >> }

RowCount(cells) ==
    IF \E k \in 1..Len(cells) : cells[k].row_index = 1 THEN 2 ELSE 1

OcrTables ==
    { [cells |-> cs, row_count |-> RowCount(cs), offset |-> o] :
          cs \in OcrCellLayouts, o \in Offsets }

\* The analysis results of at most MaxFragments paragraphs and tables.
AnalyzeResults ==
    UNION { [ paragraphs : [1..k -> Paragraphs],
              tables : SeqUpTo(OcrTables, MaxFragments - k) ] :
                k \in 0..MaxFragments }

\* os.environ.get("MIN_WORD_THRESHOLD", 1): the int 1 when the variable is
\* unset, and the str holding the configured number when it is set.
DefaultThreshold == [type |-> "int", val |-> 1]
ConfiguredThresholds == { [type |-> "str", val |-> n] : n \in {1, 2} }
Thresholds == {DefaultThreshold} \cup ConfiguredThresholds

\* len(content.split(' '))
WordCount(content) == Len(Split(content, <<" ">>))

\* The flag check of lines 75-79: some cell of some table has this content.
InSomeTable(res, content) ==
    \E t \in 1..Len(res.tables) :
        \E c \in 1..Len(res.tables[t].cells) :
            content = res.tables[t].cells[c].content

\* Variant of the condition of line 80 without the table-cell flag.
ParagraphVerdictNoCheck(res, p, threshold) ==
    IF p.role = "pageNumber" THEN "skip"
    ELSE IF threshold.type # "int" THEN "TypeError"
    ELSE IF WordCount(p.content) > threshold.val THEN "push"
    ELSE "skip"

\* Variant of the condition of line 80 without the role test.
ParagraphVerdictNoRole(res, p, threshold) ==
    IF InSomeTable(res, p.content) THEN "skip"
    ELSE IF threshold.type # "int" THEN "TypeError"
    ELSE IF WordCount(p.content) > threshold.val THEN "push"
    ELSE "skip"

\* The condition of line 80, evaluated left to right: the comparison of an
\* int with a str threshold raises TypeError, and it is reached only when
\* the first two conjuncts are true.
ParagraphVerdict(res, p, threshold) ==
    IF InSomeTable(res, p.content) THEN "skip"
    ELSE IF p.role = "pageNumber" THEN "skip"
    ELSE IF threshold.type # "int" THEN "TypeError"
    ELSE IF WordCount(p.content) > threshold.val THEN "push"
    ELSE "skip"

NewLine == <<"\n">>

OcrIdle ==
    /\ result = [paragraphs |-> <<>>, tables |-> <<>>]
    /\ pc = "idle"
    /\ idx = 0
    /\ pq = <<>>
    /\ result_string = <<>>
    /\ pushed = {}
    /\ emitted = <<>>

OcrInit ==
    /\ result \in AnalyzeResults
    /\ pc = "analyze"
    /\ idx = 0
    /\ pq = <<>>
    /\ result_string = <<>>
    /\ pushed = {}
    /\ emitted = <<>>

ocrOthers == <<cfgVars, tblVars, drvVars, jsonVars, pdfVars, sglVars>>

\* Lines 65-71: the service answers with result.
AnalyzeOk ==
    /\ pc = "analyze"
    /\ pc' = "paragraphs"
    /\ idx' = 1
    /\ UNCHANGED <<result, pq, result_string, pushed, emitted, ocrOthers>>

\* Lines 65-69: begin_analyze_document or poller.result() raises.
AnalyzeRaises ==
    /\ pc = "analyze"
    /\ pc' = "raised"
    /\ UNCHANGED <<result, idx, pq, result_string, pushed, emitted, ocrOthers>>

\* Lines 73-81: one iteration of the paragraph loop.
ParagraphStep ==
    /\ pc = "paragraphs"
    /\ idx <= Len(result.paragraphs)
    /\ LET p == result.paragraphs[idx]
           v == ParagraphVerdict(result, p, MIN_WORD_THRESHOLD)
       IN  /\ pc' = IF v = "TypeError" THEN "TypeError" ELSE pc
           /\ pq' = IF v = "push" THEN Push(pq, p.offset, p.content) ELSE pq
           /\ pushed' = IF v = "push" THEN pushed \cup {idx} ELSE pushed
           /\ idx' = IF v = "TypeError" THEN idx ELSE idx + 1
    /\ UNCHANGED <<result, result_string, emitted, ocrOthers>>

\* The paragraph loop is exhausted: on to the loop of line 83.
ParagraphsDone ==
    /\ pc = "paragraphs"
    /\ idx > Len(result.paragraphs)
    /\ pc' = "tables"
    /\ idx' = 1
    /\ UNCHANGED <<result, pq, result_string, pushed, emitted, ocrOthers>>

\* Lines 83-85: one iteration of the table loop.
TableStep ==
    /\ pc = "tables"
    /\ idx <= Len(result.tables)
    /\ LET t == result.tables[idx]
       IN  pq' = Push(pq, t.offset, table_to_markdown(t))
    /\ idx' = idx + 1
    /\ UNCHANGED <<result, pc, result_string, pushed, emitted, ocrOthers>>

TablesDone ==
    /\ pc = "tables"
    /\ idx > Len(result.tables)
    /\ pc' = "drain"
    /\ UNCHANGED <<result, idx, pq, result_string, pushed, emitted, ocrOthers>>

\* Lines 87-89: one iteration of the while loop.
PopStep ==
    /\ pc = "drain"
    /\ pq # <<>>
    /\ result_string' = result_string \o PopTop(pq).item \o NewLine
    /\ emitted' = Append(emitted, PopTop(pq))
    /\ pq' = PopRest(pq)
    /\ UNCHANGED <<result, pc, idx, pushed, ocrOthers>>

\* Line 90.
OcrReturn ==
    /\ pc = "drain"
    /\ pq = <<>>
    /\ pc' = "done"
    /\ UNCHANGED <<result, idx, pq, result_string, pushed, emitted, ocrOthers>>

----------------------------------------------------------------------------
(* The parts of the state that a specification leaves untouched.           *)

TblIdle ==
    /\ table = [cells |-> <<>>, row_count |-> 0, offset |-> 0]
    /\ markdown = <<>>
    /\ tpc = "idle"

DrvIdle ==
    /\ file_type = "pdf"
    /\ num_pages = 0
    /\ page = 0
    /\ windows = <<>>
    /\ window_texts = <<>>
    /\ attempts = 0
    /\ doc_string = <<>>
    /\ dpc = "idle"
    /\ returned = "nothing"

JsonIdle ==
    /\ llm_response = <<>>
    /\ json_out = "nothing"
    /\ jpc = "idle"

PdfIdle ==
    /\ page_texts = <<>>
    /\ open_fails = FALSE
    /\ pidx = 0
    /\ digital = "unset"
    /\ route = "none"
    /\ ppc = "idle"

SglIdle ==
    /\ threads = {}
    /\ client = <<>>
    /\ constructed = <<>>
    /\ handed = <<>>
    /\ tstep = <<>>
    /\ tfac = <<>>
    /\ targs = <<>>
    /\ tnew = <<>>
    /\ got = <<>>
    /\ calls = <<>>

----------------------------------------------------------------------------
(* Specification of one call of OCR_text_from_pdf.                         *)

InitOCR ==
    /\ MIN_WORD_THRESHOLD \in Thresholds
    /\ OcrInit
    /\ TblIdle /\ DrvIdle /\ JsonIdle /\ PdfIdle /\ SglIdle

NextOCR ==
    \/ AnalyzeOk
    \/ AnalyzeRaises
    \/ ParagraphStep
    \/ ParagraphsDone
    \/ TableStep
    \/ TablesDone
    \/ PopStep
    \/ OcrReturn

SpecOCR == InitOCR /\ [][NextOCR]_vars

ParagraphIndices == 1..Len(result.paragraphs)

\* The text made of the popped items, each followed by a newline.
RECURSIVE Lines(_)
Lines(entries) ==
    IF entries = <<>> THEN <<>>
    ELSE Head(entries).item \o NewLine \o Lines(Tail(entries))

CellContents(res) ==
    UNION { { res.tables[t].cells[c].content : c \in 1..Len(res.tables[t].cells) } :
                t \in 1..Len(res.tables) }

\* C2: a paragraph whose content equals the content of some cell of some
\* table of the result is never pushed, and no item with such a content is
\* in the queue or in the output.
C2_CellParagraphSuppressed ==
    /\ \A i \in ParagraphIndices :
           result.paragraphs[i].content \in CellContents(result) => i \notin pushed
    /\ \A k \in 1..Len(pq) : pq[k].item \notin CellContents(result)
    /\ \A k \in 1..Len(emitted) : emitted[k].item \notin CellContents(result)

\* A paragraph that passes the other two tests, equals a cell and lies at
\* another offset than the table, in a call that returned.
C2_Witness ==
    /\ pc = "done"
    /\ MIN_WORD_THRESHOLD = DefaultThreshold
    /\ \E i \in ParagraphIndices :
           /\ result.paragraphs[i].content \in CellContents(result)
           /\ result.paragraphs[i].role # "pageNumber"
           /\ WordCount(result.paragraphs[i].content) > 1
           /\ \A t \in 1..Len(result.tables) :
                  result.paragraphs[i].offset # result.tables[t].offset

\* C3: a paragraph with the role pageNumber is never pushed, so it is not
\* part of the output, whatever its word count and offset.
C3_PageNumberDropped ==
    /\ \A i \in ParagraphIndices :
           result.paragraphs[i].role = "pageNumber" => i \notin pushed
    /\ Len(pq) + Len(emitted) <=
           Cardinality({ i \in ParagraphIndices : result.paragraphs[i].role # "pageNumber" })
           + Len(result.tables)

\* A page number of two words that is in no table, in a call that returned
\* some other fragment.
C3_Witness ==
    /\ pc = "done"
    /\ MIN_WORD_THRESHOLD = DefaultThreshold
    /\ emitted # <<>>
    /\ \E i \in ParagraphIndices :
           /\ result.paragraphs[i].role = "pageNumber"
           /\ WordCount(result.paragraphs[i].content) = 2
           /\ result.paragraphs[i].content \notin CellContents(result)

\* C4: with the threshold as configured, a paragraph of at most threshold
\* words is never pushed, and once the service has answered a paragraph of
\* more than threshold words (that is no page number and no table cell) is
\* in the output of the call.
C4_ThresholdFilter ==
    \A i \in ParagraphIndices :
        LET p == result.paragraphs[i]
        IN  /\ WordCount(p.content) <= MIN_WORD_THRESHOLD.val => i \notin pushed
            /\ ( /\ pc \in {"done", "TypeError"}
                 /\ WordCount(p.content) > MIN_WORD_THRESHOLD.val
                 /\ p.role # "pageNumber"
                 /\ p.content \notin CellContents(result) )
               => ( /\ pc = "done"
                    /\ i \in pushed
                    /\ \E k \in 1..Len(emitted) : emitted[k].item = p.content )

----------------------------------------------------------------------------
(* Specification of one call of table_to_markdown.                         *)

TableContents == { <<"a">>, <<"b", " ", "c">> }

\* The table of the documented example.
NameAgeTable ==
    [ cells |-> << Cell(0, <<"N", "a", "m", "e">>), Cell(0, <<"A", "g", "e">>),
                   Cell(1, <<"A", "l", "i", "c", "e">>), Cell(1, <<"3", "0">>) >>,
      row_count |-> 2,
      offset |-> 0 ]

\* Tables of up to MaxCells cells in up to MaxRowCount rows, ragged ones
\* included.
Tables ==
    { [cells |-> cs, row_count |-> n, offset |-> 0] :
          cs \in SeqUpTo([row_index : 0..(MaxRowCount - 1), content : TableContents],
                         MaxCells),
          n \in 1..MaxRowCount }
    \cup {NameAgeTable}

InitTable ==
    /\ MIN_WORD_THRESHOLD = DefaultThreshold
    /\ table \in Tables
    /\ markdown = <<>>
    /\ tpc = "call"
    /\ OcrIdle /\ DrvIdle /\ JsonIdle /\ PdfIdle /\ SglIdle

\* Lines 19-29.
Render ==
    /\ tpc = "call"
    /\ markdown' = table_to_markdown(table)
    /\ tpc' = "done"
    /\ UNCHANGED <<table, cfgVars, ocrVars, drvVars, jsonVars, pdfVars, sglVars>>

NextTable == Render

SpecTable == InitTable /\ [][NextTable]_vars

\* The contents of the cells of row r, read from the last cell backwards.
RECURSIVE RowContents(_, _)
RowContents(cells, r) ==
    IF cells = <<>> THEN <<>>
    ELSE LET front == RowContents(SubSeq(cells, 1, Len(cells) - 1), r)
             last  == cells[Len(cells)]
         IN  IF last.row_index = r THEN Append(front, last.content) ELSE front

\* The lines of the returned string, and the cells read back from a line
\* '| x | y |'. A line without cells reads back as one empty cell.
MarkdownLines == Split(markdown, NewLine)

CellsOfLine(line) == Split(SubSeq(line, 3, Len(line) - 2), Mid)

AsRendered(texts) == IF texts = <<>> THEN << <<>> >> ELSE texts

WellFormedLine(line) ==
    /\ Len(line) >= 4
    /\ SubSeq(line, 1, 2) = Bar
    /\ SubSeq(line, Len(line) - 1, Len(line)) = <<" ", "|">>

\* The layout of the returned string: header line, separator line, one line
\* per row 1..row_count-1 in ascending order, each newline-terminated.
MarkdownLayout ==
    LET header == RowContents(table.cells, 0)
    IN  /\ Len(MarkdownLines) = table.row_count + 2
        /\ MarkdownLines[Len(MarkdownLines)] = <<>>
        /\ \A k \in 1..(table.row_count + 1) : WellFormedLine(MarkdownLines[k])
        /\ CellsOfLine(MarkdownLines[1]) = AsRendered(header)
        /\ CellsOfLine(MarkdownLines[2]) = AsRendered([k \in 1..Len(header) |-> Dashes])
        /\ \A r \in 1..(table.row_count - 1) :
               CellsOfLine(MarkdownLines[r + 2]) = AsRendered(RowContents(table.cells, r))

NameAgeMarkdown ==
    << "|", " ", "N", "a", "m", "e", " ", "|", " ", "A", "g", "e", " ", "|", "\n",
       "|", " ", "-", "-", "-", " ", "|", " ", "-", "-", "-", " ", "|", "\n",
       "|", " ", "A", "l", "i", "c", "e", " ", "|", " ", "3", "0", " ", "|", "\n" >>

RowsMatchHeader ==
    \A r \in 1..(table.row_count - 1) :
        Len(CellsOfLine(MarkdownLines[r + 2])) = Len(CellsOfLine(MarkdownLines[1]))

\* Every row 0..row_count-1 of the table has the same, non-zero number of
\* cells.
Rectangular(t) ==
    /\ RowContents(t.cells, 0) # <<>>
    /\ \A r \in 1..(t.row_count - 1) :
           Len(RowContents(t.cells, r)) = Len(RowContents(t.cells, 0))

----------------------------------------------------------------------------
(* OCR_text_from_pdf as one function of the service's answer, for its      *)
(* callers: the loops of lines 73-89 run to their end.                     *)

\* Lines 73-81 from paragraph k on: the filled queue, or "TypeError".
RECURSIVE PushParagraphs(_, _, _, _)
PushParagraphs(res, k, queue, threshold) ==
    IF k > Len(res.paragraphs) THEN queue
    ELSE LET p == res.paragraphs[k]
             v == ParagraphVerdict(res, p, threshold)
         IN  IF v = "TypeError" THEN "TypeError"
             ELSE PushParagraphs(res, k + 1,
                      IF v = "push" THEN Push(queue, p.offset, p.content) ELSE queue,
                      threshold)

\* Lines 83-85 from table k on.
RECURSIVE PushTables(_, _, _)
PushTables(res, k, queue) ==
    IF k > Len(res.tables) THEN queue
    ELSE PushTables(res, k + 1,
             Push(queue, res.tables[k].offset, table_to_markdown(res.tables[k])))

\* Lines 87-89.
RECURSIVE Drain(_)
Drain(queue) ==
    IF queue = <<>> THEN <<>>
    ELSE PopTop(queue).item \o NewLine \o Drain(PopRest(queue))

\* The string OCR_text_from_pdf returns for an answer, or "TypeError".
OCR_text(res, threshold) ==
    LET filled == PushParagraphs(res, 1, <<>>, threshold)
    IN  IF filled = "TypeError" THEN "TypeError" ELSE Drain(PushTables(res, 1, filled))

----------------------------------------------------------------------------
(* analyze_document                                                        *)

WINDOW == 2000

\* Variant of the loop condition with the last page included.
LoopCondInclusive(p, n) == p <= n

\* Line 101.
LoopCond(p, n) == p < n

\* Line 102: f"{page}-{page+1999}"
PagesArg(p) == ToDecimal(p) \o <<"-">> \o ToDecimal(p + (WINDOW - 1))

\* Variant of the step that skips a page between two windows.
NextPageSkipping(p) == p + WINDOW + 1

\* Line 104.
NextPage(p) == p + WINDOW

\* The answers the service gives for a window: a paragraph alone, and a
\* table with a paragraph that repeats one of its cells.
DriverResults ==
    { [ paragraphs |-> << [content |-> <<"a", " ", "b">>, role |-> "none", offset |-> 0] >>,
        tables |-> <<>> ],
      [ paragraphs |-> << [content |-> <<"a", " ", "b">>, role |-> "none", offset |-> 1] >>,
        tables |-> << [ cells |-> << Cell(0, <<"a", " ", "b">>), Cell(1, <<"c">>) >>,
                        row_count |-> 2, offset |-> 0 ] >> ] }

InitDriver ==
    /\ MIN_WORD_THRESHOLD \in Thresholds
    /\ file_type \in {"pdf", "docx"}
    /\ num_pages \in 0..MaxNumPages
    /\ file_type = "docx" => num_pages = 0
    /\ page = 0
    /\ windows = <<>>
    /\ window_texts = <<>>
    /\ attempts = 0
    /\ doc_string = <<>>
    /\ dpc = "start"
    /\ returned = "nothing"
    /\ OcrIdle /\ TblIdle /\ JsonIdle /\ PdfIdle /\ SglIdle

drvOthers == <<cfgVars, ocrVars, tblVars, jsonVars, pdfVars, sglVars>>

\* Lines 95-96: a docx is analysed in one call without a page range, and
\* the text of that call is returned.
DocxAnalyzed ==
    /\ dpc = "start"
    /\ file_type = "docx"
    /\ \E res \in DriverResults :
           LET text == OCR_text(res, MIN_WORD_THRESHOLD)
           IN  /\ dpc' = IF text = "TypeError" THEN "TypeError" ELSE "returned"
               /\ returned' = IF text = "TypeError" THEN returned ELSE text
               /\ window_texts' = IF text = "TypeError" THEN window_texts
                                  ELSE Append(window_texts, text)
    /\ windows' = Append(windows, "None")
    /\ attempts' = attempts + 1
    /\ UNCHANGED <<file_type, num_pages, page, doc_string, drvOthers>>

\* Lines 95-96 with a failing analysis call.
DocxRaises ==
    /\ dpc = "start"
    /\ file_type = "docx"
    /\ windows' = Append(windows, "None")
    /\ attempts' = attempts + 1
    /\ dpc' = "raised"
    /\ UNCHANGED <<file_type, num_pages, page, window_texts, doc_string, returned,
                   drvOthers>>

\* Lines 97-100.
OpenPdf ==
    /\ dpc = "start"
    /\ file_type = "pdf"
    /\ page' = 1
    /\ doc_string' = <<>>
    /\ dpc' = "loop"
    /\ UNCHANGED <<file_type, num_pages, windows, window_texts, attempts, returned,
                   drvOthers>>

\* Lines 101-104: one iteration whose analysis call is answered.
WindowAnalyzed ==
    /\ dpc = "loop"
    /\ LoopCond(page, num_pages)
    /\ windows' = Append(windows, PagesArg(page))
    /\ attempts' = attempts + 1
    /\ \E res \in DriverResults :
           LET text == OCR_text(res, MIN_WORD_THRESHOLD)
           IN  IF text = "TypeError"
               THEN /\ dpc' = "TypeError"
                    /\ UNCHANGED <<window_texts, doc_string, page>>
               ELSE /\ window_texts' = Append(window_texts, text)
                    /\ doc_string' = doc_string \o text
                    /\ page' = NextPage(page)
                    /\ dpc' = dpc
    /\ UNCHANGED <<file_type, num_pages, returned, drvOthers>>

\* Variant of a failing window that is logged and skipped.
WindowRaisesSwallowed ==
    /\ dpc = "loop"
    /\ LoopCond(page, num_pages)
    /\ windows' = Append(windows, PagesArg(page))
    /\ attempts' = attempts + 1
    /\ page' = NextPage(page)
    /\ UNCHANGED <<file_type, num_pages, window_texts, doc_string, dpc, returned,
                   drvOthers>>

\* Lines 101-103 with a failing analysis call: the exception of lines 66-69
\* leaves OCR_text_from_pdf and analyze_document.
WindowRaises ==
    /\ dpc = "loop"
    /\ LoopCond(page, num_pages)
    /\ windows' = Append(windows, PagesArg(page))
    /\ attempts' = attempts + 1
    /\ dpc' = "raised"
    /\ UNCHANGED <<file_type, num_pages, page, window_texts, doc_string, returned,
                   drvOthers>>

\* Line 106.
DriverReturn ==
    /\ dpc = "loop"
    /\ ~LoopCond(page, num_pages)
    /\ returned' = doc_string
    /\ dpc' = "returned"
    /\ UNCHANGED <<file_type, num_pages, page, windows, window_texts, attempts,
                   doc_string, drvOthers>>

NextDriver ==
    \/ DocxAnalyzed
    \/ DocxRaises
    \/ OpenPdf
    \/ WindowAnalyzed
    \/ WindowRaises
    \/ DriverReturn

SpecDriver == InitDriver /\ [][NextDriver]_vars

\* The number a decimal string denotes.
RECURSIVE FromDecimal(_)
FromDecimal(s) ==
    IF s = <<>> THEN 0
    ELSE 10 * FromDecimal(SubSeq(s, 1, Len(s) - 1)) + (Ord(s[Len(s)]) - Ord("0"))

\* First and last page of the k-th window passed to the service.
WindowStart(k) == FromDecimal(Split(windows[k], <<"-">>)[1])
WindowEnd(k) == FromDecimal(Split(windows[k], <<"-">>)[2])

\* The number of p in 1, 2001, 4001, ... with p < n.
WindowCount(n) == IF n <= 1 THEN 0 ELSE (n - 2) \div 2000 + 1

\* C6: for a pdf, the k-th analysis call gets the window string
\* '{p}-{p+1999}' with p = 2000*(k-1)+1 and p < num_pages; when the
\* function returns, one call was made for each such p and no other; for
\* 4001 pages the windows are '1-2000' and '2001-4000'.
C6_WindowStrings ==
    file_type = "pdf" =>
        /\ \A k \in 1..Len(windows) :
               /\ Len(Split(windows[k], <<"-">>)) = 2
               /\ WindowStart(k) = 2000 * (k - 1) + 1
               /\ WindowEnd(k) = WindowStart(k) + 1999
               /\ WindowStart(k) < num_pages
        /\ dpc = "returned" => Len(windows) = WindowCount(num_pages)
        /\ (dpc = "returned" /\ num_pages = 4001) =>
               windows = << <<"1", "-", "2", "0", "0", "0">>,
                            <<"2", "0", "0", "1", "-", "4", "0", "0", "0">> >>

\* A document of 4001 pages was analysed to the end.
C6_Witness ==
    /\ file_type = "pdf"
    /\ dpc = "returned"
    /\ num_pages = 4001
    /\ Len(windows) = 2

RECURSIVE Concat(_)
Concat(texts) == IF texts = <<>> THEN <<>> ELSE Head(texts) \o Concat(Tail(texts))

\* C7: for a pdf, the text built (and returned) is the concatenation of the
\* texts of the windows in the order of their pages; the first window starts
\* at page 1, each further window starts at the page after the end of the
\* one before it, and at the return the windows reach page num_pages - 1.
C7_ConcatenationOfWindows ==
    file_type = "pdf" =>
        /\ doc_string = Concat(window_texts)
        /\ dpc = "returned" => returned = Concat(window_texts)
        /\ dpc = "returned" => Len(window_texts) = Len(windows)
        /\ windows # <<>> => WindowStart(1) = 1
        /\ \A k \in 1..Len(windows) : WindowStart(k) <= WindowEnd(k)
        /\ \A k \in 1..(Len(windows) - 1) : WindowStart(k + 1) = WindowEnd(k) + 1
        /\ (dpc = "returned" /\ num_pages > 1) =>
               /\ windows # <<>>
               /\ WindowEnd(Len(windows)) >= num_pages - 1

\* Three windows with different texts were concatenated and returned.
C7_Witness ==
    /\ file_type = "pdf"
    /\ dpc = "returned"
    /\ Len(window_texts) = 3
    /\ window_texts[1] # window_texts[2]
    /\ returned # <<>>

\* C8: once an analysis call of a pdf has not come back with a text, the
\* failure has left analyze_document: nothing is returned, the failed call
\* was the last call, each window was called once, and no step follows.
C8_FailurePropagates ==
    (file_type = "pdf" /\ attempts > Len(window_texts)) =>
        /\ dpc \in {"raised", "TypeError"}
        /\ returned = "nothing"
        /\ attempts = Len(window_texts) + 1
        /\ Len(windows) = attempts
        /\ \A j, k \in 1..Len(windows) : j # k => windows[j] # windows[k]
        /\ ~ENABLED NextDriver

\* The service failed on the second window, after a text had been
\* accumulated, with a third window still to come.
C8_Witness ==
    /\ file_type = "pdf"
    /\ dpc = "raised"
    /\ Len(window_texts) = 1
    /\ doc_string # <<>>
    /\ WindowStart(Len(windows)) + 2000 < num_pages

----------------------------------------------------------------------------
(* CV_Reader_Agent.parse_into_json                                         *)
(*                                                                         *)
(* An LLM response is a sequence of pieces of text: the fence of three     *)
(* backticks, the words JSON and json, a JSON object, other text, and a    *)
(* newline. The uppercase marker is the fence followed by the word JSON,   *)
(* so that a marker is also an occurrence of the fence, as in the string.  *)

FENCE == "fence"

ResponsePieces == { FENCE, "JSON", "json", "{}", "x", "\n" }

Responses == SeqUpTo(ResponsePieces, MaxResponseLen)

UpperMarker == <<FENCE, "JSON">>

\* str.lower()
Lower(s) == [k \in 1..Len(s) |-> IF s[k] = "JSON" THEN "json" ELSE s[k]]

\* text.strip() of the whitespace json.loads skips around a document.
RECURSIVE Strip(_)
Strip(text) ==
    IF text = <<>> THEN text
    ELSE IF Head(text) = "\n" THEN Strip(Tail(text))
    ELSE IF text[Len(text)] = "\n" THEN Strip(SubSeq(text, 1, Len(text) - 1))
    ELSE text

\* json.loads: the parsed value, or the JSONDecodeError it raises for a
\* text that is not one JSON document.
JsonLoads(text) == IF Strip(text) = <<"{}">> THEN "dict" ELSE "JSONDecodeError"

\* Variant without the fallback to the lowercase marker.
parse_into_json_upper_only(response, separator) ==
    LET stripped == IF Find(response, separator) # 0
                       /\ Len(Split(response, separator)) > 1
                    THEN Split(response, separator)[2] ELSE response
    IN  JsonLoads(Split(stripped, <<FENCE>>)[1])

\* Lines 13-20.
parse_into_json(response, separator) ==
    LET sep == IF ~(Len(Split(response, separator)) > 1)
               THEN Lower(separator) ELSE separator
        stripped == IF Find(response, sep) # 0 /\ Len(Split(response, sep)) > 1
                    THEN Split(response, sep)[2] ELSE response
        json_data == Split(stripped, <<FENCE>>)[1]
    IN  JsonLoads(json_data)

InitJson ==
    /\ MIN_WORD_THRESHOLD = DefaultThreshold
    /\ llm_response \in Responses
    /\ json_out = "nothing"
    /\ jpc = "call"
    /\ OcrIdle /\ TblIdle /\ DrvIdle /\ PdfIdle /\ SglIdle

\* Line 25: get_information_extraction_from_llm parses the response with
\* the default separator.
ParseResponse ==
    /\ jpc = "call"
    /\ json_out' = parse_into_json(llm_response, UpperMarker)
    /\ jpc' = IF json_out' = "JSONDecodeError" THEN "raised" ELSE "returned"
    /\ UNCHANGED <<llm_response, cfgVars, ocrVars, tblVars, drvVars, pdfVars,
                   sglVars>>

NextJson == ParseResponse

SpecJson == InitJson /\ [][NextJson]_vars

\* The text of a response from position k on, up to the next fence.
UpToFence(response, k) ==
    LET rest == SubSeq(response, k, Len(response))
        stop == Find(rest, <<FENCE>>)
    IN  IF stop = 0 THEN rest ELSE SubSeq(rest, 1, stop - 1)

\* The content left after marker stripping: what follows the first
\* uppercase marker if there is one, else what follows the first lowercase
\* marker if there is one, else the response itself; up to the next fence.
StrippedContent(response) ==
    LET upper == Find(response, <<FENCE, "JSON">>)
        lower == Find(response, <<FENCE, "json">>)
    IN  IF upper # 0 THEN UpToFence(response, upper + 2)
        ELSE IF lower # 0 THEN UpToFence(response, lower + 2)
        ELSE UpToFence(response, 1)

\* One JSON document, with nothing but whitespace around it.
IsJson(text) ==
    \E k \in 1..Len(text) :
        /\ text[k] = "{}"
        /\ \A j \in 1..Len(text) : j # k => text[j] = "\n"

\* C9: parse_into_json parses the content left after marker stripping
\* (uppercase marker first, lowercase marker only when the uppercase one
\* does not occur, content up to the next fence): it returns the parsed
\* value when that content is valid JSON and raises, returning no value,
\* when it is not.
C9_ParseIntoJson ==
    jpc # "call" =>
        /\ IsJson(StrippedContent(llm_response))
               => (jpc = "returned" /\ json_out = "dict")
        /\ ~IsJson(StrippedContent(llm_response))
               => (jpc = "raised" /\ json_out = "JSONDecodeError")

\* A response fenced with the lowercase marker only was parsed.
C9_Witness ==
    /\ jpc = "returned"
    /\ Find(llm_response, <<FENCE, "JSON">>) = 0
    /\ Find(llm_response, <<FENCE, "json">>) # 0
    /\ Len(Split(llm_response, <<FENCE>>)) = 3

----------------------------------------------------------------------------
(* PDF_Reader.is_digital_pdf and PDF_Reader.extract_text_from_pdf          *)

\* What page.extract_text() does for a page: it returns no text, text with
\* a letter or a digit, or text without one, or it raises.
Extracted(text) == [raises |-> FALSE, text |-> text]

PageRaises == [raises |-> TRUE, text |-> <<>>]

PageOutcomes ==
    { Extracted(<<>>), Extracted(<<"a">>), Extracted(<<"-">>), Extracted(<<"-", "1">>),
      PageRaises }

AlnumChars ==
    { "0", "1", "2", "3", "4", "5", "6", "7", "8", "9",
      "A", "N", "a", "b", "c", "d", "e", "g", "i", "l", "m" }

\* re.search(r'[a-zA-Z0-9]', text)
HasAlnum(text) == \E k \in 1..Len(text) : text[k] \in AlnumChars

\* Variant of the loop body that goes on to the next page after a page
\* without text.
PageVerdictSkipEmpty(outcome) ==
    IF outcome.raises THEN "None"
    ELSE IF outcome.text # <<>> /\ HasAlnum(outcome.text) THEN "True"
    ELSE "continue"

\* Lines 17-23: what the loop body does with a page.
PageVerdict(outcome) ==
    IF outcome.raises THEN "None"
    ELSE IF outcome.text # <<>>
         THEN IF HasAlnum(outcome.text) THEN "True" ELSE "continue"
         ELSE "False"

\* bool(value) for the values is_digital_pdf returns.
Truthy(value) == value = "True"

InitPdf ==
    /\ MIN_WORD_THRESHOLD = DefaultThreshold
    /\ page_texts \in SeqUpTo(PageOutcomes, MaxPdfPages)
    /\ open_fails \in BOOLEAN
    /\ pidx = 0
    /\ digital = "unset"
    /\ route = "none"
    /\ ppc = "call"
    /\ OcrIdle /\ TblIdle /\ DrvIdle /\ JsonIdle /\ SglIdle

pdfOthers == <<cfgVars, ocrVars, tblVars, drvVars, jsonVars, sglVars>>

\* Lines 13-15: the file opens and the reader is built.
OpenOk ==
    /\ ppc = "call"
    /\ ~open_fails
    /\ pidx' = 1
    /\ ppc' = "scan"
    /\ UNCHANGED <<page_texts, open_fails, digital, route, pdfOthers>>

\* Lines 13-15 raise; lines 24-26 log and return None.
OpenRaises ==
    /\ ppc = "call"
    /\ open_fails
    /\ digital' = "None"
    /\ ppc' = "checked"
    /\ UNCHANGED <<page_texts, open_fails, pidx, route, pdfOthers>>

\* Lines 16-23: one iteration of the page loop.
ScanPage ==
    /\ ppc = "scan"
    /\ pidx <= Len(page_texts)
    /\ LET v == PageVerdict(page_texts[pidx])
       IN  IF v = "continue"
           THEN /\ pidx' = pidx + 1
                /\ UNCHANGED <<digital, ppc>>
           ELSE /\ digital' = v
                /\ ppc' = "checked"
                /\ pidx' = pidx
    /\ UNCHANGED <<page_texts, open_fails, route, pdfOthers>>

\* The loop ends without a return statement: the function returns None.
ScanEnd ==
    /\ ppc = "scan"
    /\ pidx > Len(page_texts)
    /\ digital' = "None"
    /\ ppc' = "checked"
    /\ UNCHANGED <<page_texts, open_fails, pidx, route, pdfOthers>>

\* Lines 56-59.
ChooseReader ==
    /\ ppc = "checked"
    /\ route' = IF Truthy(digital) THEN "read_digital_pdf" ELSE "ocr"
    /\ ppc' = "routed"
    /\ UNCHANGED <<page_texts, open_fails, pidx, digital, pdfOthers>>

NextPdf ==
    \/ OpenOk
    \/ OpenRaises
    \/ ScanPage
    \/ ScanEnd
    \/ ChooseReader

SpecPdf == InitPdf /\ [][NextPdf]_vars

\* A page that ends the scan: no text, text with a letter or digit, or an
\* extraction error. Text without a letter or digit does not.
Decisive(outcome) ==
    \/ outcome.raises
    \/ Len(outcome.text) = 0
    \/ \E k \in 1..Len(outcome.text) : outcome.text[k] \in AlnumChars

\* The first decisive page of the document, 0 when there is none.
FirstDecisive ==
    LET ds == { k \in 1..Len(page_texts) : Decisive(page_texts[k]) }
    IN  IF ds = {} THEN 0 ELSE CHOOSE k \in ds : \A j \in ds : k <= j

NoExtractionError ==
    /\ ~open_fails
    /\ \A k \in 1..Len(page_texts) : ~page_texts[k].raises

\* C10 as stated: whenever some page has alphanumeric text the result is
\* True, whenever some page has no extracted text the result is False, an
\* extraction error gives None, and extract_text_from_pdf uses
\* read_digital_pdf exactly when the value is truthy.
C10_AnyPageDecides ==
    ppc \in {"checked", "routed"} =>
        /\ ( /\ NoExtractionError
             /\ \E k \in 1..Len(page_texts) : HasAlnum(page_texts[k].text) )
           => digital = "True"
        /\ ( /\ NoExtractionError
             /\ \E k \in 1..Len(page_texts) : page_texts[k].text = <<>> )
           => digital = "False"
        /\ open_fails => digital = "None"
        /\ ppc = "routed" => (route = "read_digital_pdf" <=> Truthy(digital))

\* C10 amended: is_digital_pdf reads the pages in order and the first page that has
\* no text, alphanumeric text or an extraction error decides: alphanumeric
\* text gives True, no text gives False without reading further pages, an
\* error (of the page or of opening the file) gives None, as does a document
\* none of whose pages decides; extract_text_from_pdf uses read_digital_pdf
\* exactly when the value is truthy, and ocr for False and None.
C10_DigitalRouting ==
    ppc \in {"checked", "routed"} =>
        LET d == FirstDecisive
        IN  /\ (~open_fails /\ d # 0 /\ page_texts[d].raises) => digital = "None"
            /\ (~open_fails /\ d # 0 /\ page_texts[d] = Extracted(<<>>))
                   => (digital = "False" /\ pidx = d)
            /\ (~open_fails /\ d # 0 /\ ~page_texts[d].raises
                                      /\ page_texts[d].text # <<>>)
                   => (digital = "True" /\ pidx = d)
            /\ (open_fails \/ d = 0) => digital = "None"
            /\ ppc = "routed" =>
                   /\ route = "read_digital_pdf" <=> digital = "True"
                   /\ route = "ocr" <=> digital \in {"False", "None"}

\* A page without text stopped the scan before a later page with text, and
\* the document went to OCR.
C10_Witness ==
    /\ ppc = "routed"
    /\ route = "ocr"
    /\ digital = "False"
    /\ pidx = 2
    /\ Len(page_texts) = 3
    /\ page_texts[3] = Extracted(<<"a">>)

----------------------------------------------------------------------------
(* The client factories OpenAIClient.create_azure_openai_chat_client and   *)
(* AzDocumentIntelligenceClient.create_document_intelligence_client.       *)
(*                                                                         *)
(* Both keep the client in a class attribute that starts as None. A call   *)
(* is four steps, between which another thread may run: the test of the   *)
(* attribute, the constructor, the assignment and the return, which reads  *)
(* the attribute again.                                                    *)

Factories == { "OpenAIClient", "AzDocumentIntelligenceClient" }

\* The arguments of a call: the defaults taken from the environment,
\* explicit other values, and a missing key, for which the constructor
\* raises (APIKeyNotFoundError, or the TypeError of AzureKeyCredential).
CallArgs == { "default", "other", "missing" }

\* None, and a constructed client: the n-th one its factory has built, with
\* the arguments it was built from.
NoClient == [id |-> 0, args |-> "none"]

NewClient(n, a) == [id |-> n, args |-> a]

SglInit(ts) ==
    /\ threads = ts
    /\ client = [f \in Factories |-> NoClient]
    /\ constructed = [f \in Factories |-> 0]
    /\ handed = [f \in Factories |-> {}]
    /\ tstep = [t \in ts |-> "idle"]
    /\ tfac = [t \in ts |-> "OpenAIClient"]
    /\ targs = [t \in ts |-> "default"]
    /\ tnew = [t \in ts |-> NoClient]
    /\ got = [t \in ts |-> NoClient]
    /\ calls = [t \in ts |-> 0]

sglOthers == <<cfgVars, ocrVars, tblVars, drvVars, jsonVars, pdfVars>>

\* A thread calls one of the factories with some arguments.
BeginCall(t) ==
    /\ tstep[t] = "idle"
    /\ calls[t] < MaxCalls
    /\ \E f \in Factories, a \in CallArgs :
           /\ tfac' = [tfac EXCEPT ![t] = f]
           /\ targs' = [targs EXCEPT ![t] = a]
    /\ tstep' = [tstep EXCEPT ![t] = "check"]
    /\ calls' = [calls EXCEPT ![t] = calls[t] + 1]
    /\ tnew' = [tnew EXCEPT ![t] = NoClient]
    /\ UNCHANGED <<threads, client, constructed, handed, got, sglOthers>>

\* Variant of the test that takes the branch whatever the attribute holds.
CheckAlways(t) ==
    /\ tstep[t] = "check"
    /\ tstep' = [tstep EXCEPT ![t] = "construct"]
    /\ UNCHANGED <<threads, client, constructed, handed, tfac, targs, tnew, got,
                   calls, sglOthers>>

\* Variant of the test that is taken under a lock held until the return: it
\* waits while another thread is between its test and its return.
CheckUnderLock(t) ==
    /\ tstep[t] = "check"
    /\ \A u \in threads \ {t} : tstep[u] \in {"idle", "check"}
    /\ tstep' = [tstep EXCEPT ![t] =
                    IF client[tfac[t]] = NoClient THEN "construct" ELSE "return"]
    /\ UNCHANGED <<threads, client, constructed, handed, tfac, targs, tnew, got,
                   calls, sglOthers>>

\* llm_client.py line 25, document_intelligence_client.py line 56:
\* if not cls.<client>
Check(t) ==
    /\ tstep[t] = "check"
    /\ tstep' = [tstep EXCEPT ![t] =
                    IF client[tfac[t]] = NoClient THEN "construct" ELSE "return"]
    /\ UNCHANGED <<threads, client, constructed, handed, tfac, targs, tnew, got,
                   calls, sglOthers>>

\* llm_client.py lines 26-35, document_intelligence_client.py lines 57-61:
\* the constructor builds a client from the arguments of this call.
Construct(t) ==
    /\ tstep[t] = "construct"
    /\ targs[t] # "missing"
    /\ constructed' = [constructed EXCEPT ![tfac[t]] = constructed[tfac[t]] + 1]
    /\ tnew' = [tnew EXCEPT ![t] = NewClient(constructed[tfac[t]] + 1, targs[t])]
    /\ tstep' = [tstep EXCEPT ![t] = "assign"]
    /\ UNCHANGED <<threads, client, handed, tfac, targs, got, calls, sglOthers>>

\* The constructor raises: the call ends without a value and the attribute
\* stays as it is.
ConstructRaises(t) ==
    /\ tstep[t] = "construct"
    /\ targs[t] = "missing"
    /\ tstep' = [tstep EXCEPT ![t] = "idle"]
    /\ got' = [got EXCEPT ![t] = NoClient]
    /\ UNCHANGED <<threads, client, constructed, handed, tfac, targs, tnew, calls,
                   sglOthers>>

\* The assignment to the class attribute.
Assign(t) ==
    /\ tstep[t] = "assign"
    /\ client' = [client EXCEPT ![tfac[t]] = tnew[t]]
    /\ tstep' = [tstep EXCEPT ![t] = "return"]
    /\ UNCHANGED <<threads, constructed, handed, tfac, targs, tnew, got, calls,
                   sglOthers>>

\* llm_client.py line 36, document_intelligence_client.py line 62:
\* return cls.<client>, the value the attribute holds now.
Return(t) ==
    /\ tstep[t] = "return"
    /\ got' = [got EXCEPT ![t] = client[tfac[t]]]
    /\ handed' = [handed EXCEPT ![tfac[t]] = handed[tfac[t]] \cup {client[tfac[t]]}]
    /\ tstep' = [tstep EXCEPT ![t] = "idle"]
    /\ UNCHANGED <<threads, client, constructed, tfac, targs, tnew, calls, sglOthers>>

NextSingleton ==
    \/ \E t \in threads : BeginCall(t)
    \/ \E t \in threads : Check(t)
    \/ \E t \in threads : Construct(t)
    \/ \E t \in threads : ConstructRaises(t)
    \/ \E t \in threads : Assign(t)
    \/ \E t \in threads : Return(t)

\* Single-threaded use: every call is made by the one thread of the process.
InitSingleton ==
    /\ MIN_WORD_THRESHOLD = DefaultThreshold
    /\ SglInit({1})
    /\ OcrIdle /\ TblIdle /\ DrvIdle /\ JsonIdle /\ PdfIdle

SpecSingleton == InitSingleton /\ [][NextSingleton]_vars

\* C11: in single-threaded use, each factory builds no client before its
\* first call, builds at most one client in total, keeps it in the class
\* attribute, and every call that returns hands out that one client,
\* whatever arguments the call passes.
C11_SingletonClient ==
    \A f \in Factories :
        /\ constructed[f] <= 1
        /\ (\A t \in threads : calls[t] = 0) => (constructed[f] = 0 /\ client[f] = NoClient)
        /\ client[f] # NoClient => (constructed[f] = 1 /\ client[f].id = 1)
        /\ handed[f] \subseteq {client[f]}
        /\ NoClient \notin handed[f]
        /\ \A t \in threads :
               (tstep[t] = "idle" /\ tfac[t] = f /\ got[t] # NoClient) => got[t] = client[f]

\* A later call with other arguments got the client of the first call.
C11_Witness ==
    \E f \in Factories :
        /\ threads = {1}
        /\ calls[1] >= 2
        /\ tstep[1] = "idle"
        /\ tfac[1] = f
        /\ targs[1] = "other"
        /\ got[1] = NewClient(1, "default")
        /\ handed[f] = {got[1]}

----------------------------------------------------------------------------
(* Two threads of one process use the factories.                           *)

RaceThreads == {1, 2}

InitRace ==
    /\ MIN_WORD_THRESHOLD = DefaultThreshold
    /\ SglInit(RaceThreads)
    /\ OcrIdle /\ TblIdle /\ DrvIdle /\ JsonIdle /\ PdfIdle

SpecRace == InitRace /\ [][NextSingleton]_vars

\* Thread t has found the attribute of factory f unset and has not yet
\* assigned to it.
InCreation(t, f) ==
    /\ tfac[t] = f
    /\ tstep[t] \in {"construct", "assign"}
    /\ client[f] = NoClient

\* C12: the creation of the singleton is not guarded. While one thread is
\* between its test of the attribute and its assignment, the test of
\* another thread calling the same factory can still run and still finds
\* the attribute unset; a factory builds a second client only for a thread
\* that passed the test this way, and two different clients are handed out
\* only after two were built.
C12_UnguardedCreation ==
    \A f \in Factories :
        /\ \A t, u \in threads :
               (t # u /\ InCreation(t, f) /\ tstep[u] = "check" /\ tfac[u] = f)
                   => ENABLED (Check(u) /\ tstep'[u] = "construct")
        /\ constructed[f] <= Cardinality(threads)
        /\ Cardinality(handed[f]) <= constructed[f]

\* Both threads made their first call to the same factory, the factory built
\* two clients, and the two callers hold different clients.
C12_Witness ==
    \E f \in Factories :
        /\ \A t \in threads : calls[t] = 1 /\ tstep[t] = "idle" /\ tfac[t] = f
        /\ constructed[f] = 2
        /\ got[1] # NoClient
        /\ got[2] # NoClient
        /\ got[1] # got[2]

----------------------------------------------------------------------------
(* The pages analyze_document submits.                                     *)

\* C13: when analyze_document returns for a pdf of at least one page, at
\* least one analysis call was made and every page from 1 to num_pages lies
\* inside some window that was submitted.
C13_EveryPageAnalyzed ==
    (file_type = "pdf" /\ dpc = "returned" /\ num_pages >= 1) =>
        /\ attempts >= 1
        /\ \A p \in 1..num_pages :
               \E k \in 1..Len(windows) : WindowStart(k) <= p /\ p <= WindowEnd(k)

====
